---- MODULE Spec2Model ----
(***************************************************************************)
(* Model of pro_app.py: a Streamlit script that is re-run from the top on  *)
(* every request.  One run: connect to the database, read the token from   *)
(* the URL, look the token up, check its expiry, then serve at most one    *)
(* clicked button (Logout, Fetch Trending Videos, Ask).                    *)
(*                                                                         *)
(* Text is modelled as a sequence of segments [src, idx, len]: the first   *)
(* len characters of the source string named by (src, idx).  Concatenation *)
(* is \o and slicing text[:n] is TakePrefix, so lengths up to 20000 are    *)
(* exact without enumerating characters.                                   *)
(***************************************************************************)
EXTENDS Integers, Sequences, FiniteSets, TLC

\* ---------------------------------------------------------------- constants
\* 'maxResults': 10 in the search request and videos[:10]
MaxResults == 10
\* videos[:5] in the enrichment loop and in the return
TopN == 5
\* all_content[:20000]
TextBudget == 20000

\* ------------------------------------------------------------------- bounds
\* the search provider may answer with up to MaxRaw raw items
MaxRaw == 11
\* UNIX timestamps and expiry values range over 1..MaxTime
MaxTime == 2

\* ------------------------------------------------------------ input domains
UrlTokens == {"", "t1", "t2"}
Tokens == {"t1", "t2"}
Times == 1..MaxTime
Rows == [null : {TRUE}, expiry : {0}] \cup [null : {FALSE}, expiry : Times]
Buttons == {"none", "logout", "fetch", "ask"}
UserInputs == {"", "q"}
CompletionOutcomes == {"ctor_error", "invoke_error", "empty", "text"}

\* ---------------------------------------------------------------------- text
Seg(src, idx, len) == [src |-> src, idx |-> idx, len |-> len]
Txt(src, idx, len) == IF len = 0 THEN <<>> ELSE <<Seg(src, idx, len)>>

RECURSIVE TextLen(_)
TextLen(t) == IF t = <<>> THEN 0 ELSE Head(t).len + TextLen(Tail(t))

\* Python slice text[:n]
RECURSIVE TakePrefix(_, _)
TakePrefix(t, n) ==
  IF t = <<>> \/ n <= 0 THEN <<>>
  ELSE IF Head(t).len <= n
       THEN <<Head(t)>> \o TakePrefix(Tail(t), n - Head(t).len)
       ELSE <<[Head(t) EXCEPT !.len = n]>>

\* Python list slice xs[:n]
ListPrefix(xs, n) == SubSeq(xs, 1, IF Len(xs) < n THEN Len(xs) ELSE n)

\* int("...") of a decimal digit string
RECURSIVE ParseInt(_)
ParseInt(ds) ==
  IF ds = <<>> THEN 0 ELSE 10 * ParseInt(SubSeq(ds, 1, Len(ds) - 1)) + ds[Len(ds)]

\* str(n) of a non-negative integer, as its digits
RECURSIVE FormatInt(_)
FormatInt(n) == IF n < 10 THEN <<n>> ELSE FormatInt(n \div 10) \o <<n % 10>>

\* ------------------------------------------------------- collaborator inputs
\* A raw search answer: count items in provider order, item noId (if any)
\* carries no 'videoId'.
SearchResponse(kind, count, noId) == [kind |-> kind, count |-> count, noId |-> noId]
\* kinds: "error" (RequestException), "no_items" (JSON without 'items'), "ok"
StatsResponse(kind, viewCount) == [kind |-> kind, viewCount |-> viewCount]
StatsKinds ==
  {"error", "no_items_key", "empty_items", "no_statistics", "no_viewCount", "ok"}
TranscriptResponse(ok, len) == [ok |-> ok, len |-> len]

\* title and description of the raw item at provider position k
TitleLen(k) == 10 + k
DescLen(k) == (k % 3) * 40
Title(k) == Txt("title", k, TitleLen(k))
Description(k) == Txt("description", k, DescLen(k))

\* ------------------------------------------------------------------- videos
\* the dict appended by search_youtube_topic; 'views' and 'content' are keys
\* added later by fetch_trending_videos
Video(k) ==
  [video_id |-> k, has_views |-> FALSE, views |-> 0,
   has_content |-> FALSE, content |-> <<>>]

RECURSIVE CollectVideos(_, _)
CollectVideos(resp, k) ==
  IF k > resp.count THEN <<>>
  ELSE IF k = resp.noId THEN CollectVideos(resp, k + 1)
       ELSE <<Video(k)>> \o CollectVideos(resp, k + 1)

\* search_youtube_topic without the "if not youtube_api_key" check
SearchWithoutKeyCheck(key, resp) ==
  IF resp.kind = "error" THEN [called |-> TRUE, videos |-> <<>>]
  ELSE IF resp.kind = "no_items" THEN [called |-> TRUE, videos |-> <<>>]
  ELSE [called |-> TRUE, videos |-> ListPrefix(CollectVideos(resp, 1), MaxResults)]

\* search_youtube_topic: [called, videos]; called says whether the search
\* request was sent
SearchYoutubeTopic(key, resp) ==
  IF ~key THEN [called |-> FALSE, videos |-> <<>>]
  ELSE IF resp.kind = "error" THEN [called |-> TRUE, videos |-> <<>>]
  ELSE IF resp.kind = "no_items" THEN [called |-> TRUE, videos |-> <<>>]
  ELSE [called |-> TRUE, videos |-> ListPrefix(CollectVideos(resp, 1), MaxResults)]

\* get_video_views: [raised, value]
GetVideoViews(resp) ==
  IF resp.kind = "error" THEN [raised |-> FALSE, value |-> 0]
  ELSE IF resp.kind = "empty_items" THEN [raised |-> TRUE, value |-> 0]
  ELSE IF resp.kind \in {"no_items_key", "no_statistics", "no_viewCount"}
       THEN [raised |-> FALSE, value |-> 0]
       ELSE [raised |-> FALSE, value |-> ParseInt(resp.viewCount)]

Unavailable == Txt("lit_transcript_not_available", 0, 25)

\* get_video_transcript
GetVideoTranscript(id, resp) ==
  IF resp.ok THEN Txt("transcript", id, resp.len) ELSE Unavailable

\* the content chosen for a video: description when the transcript is the
\* "Transcript not available." string
ContentOf(id, transcript) ==
  IF transcript = Unavailable THEN Description(id) ELSE transcript

\* f"### {title} ({views} views)\n{content}\n\n"
Block(v) ==
  Txt("lit_hashes", 0, 4) \o Title(v.video_id) \o Txt("lit_open", 0, 2)
  \o Txt("int", v.views, Len(FormatInt(v.views))) \o Txt("lit_views", 0, 8)
  \o v.content \o Txt("lit_newlines", 0, 2)

\* f"{title}, "
TitleItem(v) == Title(v.video_id) \o Txt("lit_comma", 0, 2)

\* x.get('views', 0)
ViewsKey(v) == IF v.has_views THEN v.views ELSE 0

\* a descending sort that puts a later equal key first (sort ascending, then
\* reverse the list)
RECURSIVE InsertDescTiesReversed(_, _)
InsertDescTiesReversed(sorted, v) ==
  IF sorted = <<>> THEN <<v>>
  ELSE IF ViewsKey(Head(sorted)) > ViewsKey(v)
       THEN <<Head(sorted)>> \o InsertDescTiesReversed(Tail(sorted), v)
       ELSE <<v>> \o sorted

\* videos.sort(key=...) without reverse=True
RECURSIVE InsertAsc(_, _)
InsertAsc(sorted, v) ==
  IF sorted = <<>> THEN <<v>>
  ELSE IF ViewsKey(Head(sorted)) <= ViewsKey(v)
       THEN <<Head(sorted)>> \o InsertAsc(Tail(sorted), v)
       ELSE <<v>> \o sorted

RECURSIVE SortByViewsAscending(_)
SortByViewsAscending(vs) ==
  IF vs = <<>> THEN <<>>
  ELSE InsertAsc(SortByViewsAscending(SubSeq(vs, 1, Len(vs) - 1)), vs[Len(vs)])

\* videos.sort(key=..., reverse=True): stable, descending
RECURSIVE InsertDesc(_, _)
InsertDesc(sorted, v) ==
  IF sorted = <<>> THEN <<v>>
  ELSE IF ViewsKey(Head(sorted)) >= ViewsKey(v)
       THEN <<Head(sorted)>> \o InsertDesc(Tail(sorted), v)
       ELSE <<v>> \o sorted

RECURSIVE SortByViews(_)
SortByViews(vs) ==
  IF vs = <<>> THEN <<>>
  ELSE InsertDesc(SortByViews(SubSeq(vs, 1, Len(vs) - 1)), vs[Len(vs)])

\* "for video in videos" (no slice)
EnrichAll(vs) == vs
\* "for video in videos[:5]"
EnrichSlice(vs) == ListPrefix(vs, TopN)
\* "return videos[:5], ..."
ReturnSlice(vs) == ListPrefix(vs, TopN)
\* "all_content" returned without the slice
TruncateNone(text) == text
\* "all_content[:20000]"
Truncate(text) == TakePrefix(text, TextBudget)
\* "if not videos"
NoVideos(vs) == vs = <<>>

\* ------------------------------------------------------------------ the gate
NoResult == <<>>
\* cur.fetchone() of SELECT expiry FROM tokens WHERE token = %s
FetchOne(table, tok) == IF tok \in DOMAIN table THEN table[tok] ELSE NoResult
\* "if not token"
TokenMissing(tok) == tok = ""
\* the expiry check without "result[0] is None"
SessionExpiredNullPasses(res, now) ==
  res = NoResult \/ (~res[1].null /\ res[1].expiry < now)
\* "if not result or result[0] is None or int(result[0]) < current_time"
SessionExpired(res, now) ==
  res = NoResult \/ res[1].null \/ res[1].expiry < now
\* a DELETE that is never committed
DeleteTokenNotCommitted(table, tok) == table
\* DELETE FROM tokens WHERE token = %s; commit
DeleteToken(table, tok) ==
  [t \in DOMAIN table |-> IF t = tok THEN NoResult ELSE table[t]]

\* ------------------------------------------------------------- the generator
SummaryFailedEmpty == "AI content generation failed."
SummaryFailedError == "AI content generation failed. Please try again."
ChatFailed == "ERROR: Failed to generate chatbot response - error"
CompletionText == "completion text"

\* what llm.invoke(prompt).content is for a successful call
ResponseOf(outcome) == IF outcome = "empty" THEN "" ELSE CompletionText
Raises(outcome) == outcome \in {"ctor_error", "invoke_error"}

\* generate_summary's try/except: [raised, value]
SummaryReturn(outcome) ==
  IF Raises(outcome) THEN [raised |-> FALSE, value |-> SummaryFailedError]
  ELSE IF ResponseOf(outcome) # ""
       THEN [raised |-> FALSE, value |-> ResponseOf(outcome)]
       ELSE [raised |-> FALSE, value |-> SummaryFailedEmpty]

\* ai_research_chat with the ChatGroq constructor outside the try
ChatReturnCtorOutsideTry(outcome) ==
  IF outcome = "ctor_error" THEN [raised |-> TRUE, value |-> ""]
  ELSE IF Raises(outcome) THEN [raised |-> FALSE, value |-> ChatFailed]
  ELSE [raised |-> FALSE, value |-> ResponseOf(outcome)]

\* ai_research_chat's try/except: [raised, value]
ChatReturn(outcome) ==
  IF Raises(outcome) THEN [raised |-> FALSE, value |-> ChatFailed]
  ELSE [raised |-> FALSE, value |-> ResponseOf(outcome)]

\* all_content.strip() is empty: only whitespace segments
IsBlank(text) == \A n \in 1..Len(text) : text[n].src = "lit_newlines"
SummaryPrompt(text) == IF IsBlank(text) THEN "titles_only" ELSE "content"

\* --------------------------------------------------------------------- state
VARIABLES
  pc,               \* position of the script run
  db,               \* tokens table: token -> <<>> (no row) or <<row>>
  youtube_api_key,  \* TRUE when YOUTUBE_API_KEY is set for this run
  token,            \* token read from the URL
  result,           \* cur.fetchone() of the expiry lookup
  current_time,     \* int(time.time()) of this run
  clicked,          \* the button whose click triggered this run
  videos,           \* the list built by search_youtube_topic, mutated in place
  discovery,        \* video ids in the order search_youtube_topic returned them
  i,                \* index of the next video of the enrichment loop
  all_content,      \* accumulator of fetch_trending_videos
  titles,           \* accumulator of fetch_trending_videos
  fetch_ret,        \* value returned by fetch_trending_videos
  summary,          \* value returned by generate_summary
  chatbot_response, \* value returned by ai_research_chat
  completion,       \* outcome of the completion collaborator in this run
  calls,            \* outbound calls of this run, in order
  exc,              \* exception that ended the run, if any
  status            \* last st.error / st.warning / st.success of this run

vars ==
  <<pc, db, youtube_api_key, token, result, current_time, clicked, videos,
    discovery, i, all_content, titles, fetch_ret, summary, chatbot_response,
    completion, calls, exc, status>>

reqVars ==
  <<token, result, current_time, clicked>>
aggVars ==
  <<videos, discovery, i, all_content, titles, fetch_ret>>
genVars ==
  <<summary, chatbot_response, completion>>

NotReturned == [returned |-> FALSE, value |-> ""]
NoFetchRet ==
  [returned |-> FALSE, items |-> <<>>, joined_text |-> <<>>, title_list |-> <<>>]
Call(svc, arg) == [svc |-> svc, arg |-> arg]

Ended == {"idle", "done", "stopped", "crashed"}

\* a fresh run of the script: every script variable starts unset
FreshRun ==
  /\ token' = ""
  /\ result' = NoResult
  /\ current_time' = 0
  /\ clicked' = "none"
  /\ videos' = <<>>
  /\ discovery' = <<>>
  /\ i' = 0
  /\ all_content' = <<>>
  /\ titles' = <<>>
  /\ fetch_ret' = NoFetchRet
  /\ summary' = NotReturned
  /\ chatbot_response' = NotReturned
  /\ completion' = "none"
  /\ calls' = <<>>
  /\ exc' = "none"

Init ==
  /\ pc = "idle"
  /\ db \in [Tokens -> {NoResult} \cup {<<r>> : r \in Rows}]
  /\ youtube_api_key = TRUE
  /\ token = ""
  /\ result = NoResult
  /\ current_time = 0
  /\ clicked = "none"
  /\ videos = <<>>
  /\ discovery = <<>>
  /\ i = 0
  /\ all_content = <<>>
  /\ titles = <<>>
  /\ fetch_ret = NoFetchRet
  /\ summary = NotReturned
  /\ chatbot_response = NotReturned
  /\ completion = "none"
  /\ calls = <<>>
  /\ exc = "none"
  /\ status = ""

\* ------------------------------------------------------------------- actions
\* lines 19-38: a new run loads the environment and connects to the database
DatabaseConnection ==
  /\ pc \in Ended
  /\ FreshRun
  /\ youtube_api_key' \in BOOLEAN
  /\ \E connected \in BOOLEAN :
       IF connected
       THEN pc' = "get_token" /\ status' = ""
       ELSE pc' = "stopped" /\ status' = "Database Connection Failed!"
  /\ UNCHANGED db

\* lines 42-62: read the token from the URL, stop when it is missing
RetrieveToken ==
  /\ pc = "get_token"
  /\ \E t \in UrlTokens :
       /\ token' = t
       /\ IF TokenMissing(t)
          THEN pc' = "stopped" /\ status' = "Unauthorized Access! Redirecting..."
          ELSE pc' = "validate" /\ UNCHANGED status
  /\ UNCHANGED <<db, youtube_api_key, result, current_time, clicked, aggVars,
                 genVars, calls, exc>>

\* lines 66-73: SELECT expiry FROM tokens WHERE token = %s
ValidateToken ==
  /\ pc = "validate"
  /\ \E executed \in BOOLEAN :
       IF executed
       THEN /\ result' = FetchOne(db, token)
            /\ pc' = "check_expiry"
            /\ UNCHANGED status
       ELSE /\ pc' = "stopped"
            /\ status' = "Error fetching token data!"
            /\ UNCHANGED result
  /\ UNCHANGED <<db, youtube_api_key, token, current_time, clicked, aggVars,
                 genVars, calls, exc>>

\* lines 77-86: compare the expiry with the current time
CheckExpiry(times) ==
  /\ pc = "check_expiry"
  /\ \E now \in times :
       /\ current_time' = now
       /\ IF SessionExpired(result, now)
          THEN pc' = "stopped" /\ status' = "Session Expired! Redirecting..."
          ELSE pc' = "ui" /\ UNCHANGED status
  /\ UNCHANGED <<db, youtube_api_key, token, result, clicked, aggVars, genVars,
                 calls, exc>>

\* lines 95-111: the Logout button
LogoutHandler ==
  /\ pc = "ui"
  /\ clicked' = "logout"
  /\ \E committed \in BOOLEAN :
       IF committed
       THEN db' = DeleteToken(db, token) /\ status' = "Logged out! Redirecting..."
       ELSE UNCHANGED db /\ status' = "Logout Failed!"
  /\ pc' = "stopped"
  /\ UNCHANGED <<youtube_api_key, token, result, current_time, aggVars, genVars,
                 calls, exc>>

\* lines 223-224, 167-173, 236-237: the Fetch button up to the end of discovery
FetchTrendingVideos(searchResponses) ==
  /\ pc = "ui"
  /\ clicked' = "fetch"
  /\ \E resp \in searchResponses :
       LET searched == SearchYoutubeTopic(youtube_api_key, resp)
           found == searched.videos
       IN /\ calls' = IF searched.called THEN <<Call("search", 0)>> ELSE <<>>
          /\ videos' = found
          /\ discovery' = [n \in 1..Len(found) |-> found[n].video_id]
          /\ IF NoVideos(found)
             THEN /\ fetch_ret' = [NoFetchRet EXCEPT !.returned = TRUE]
                  /\ status' = "No trending videos found."
                  /\ pc' = "done"
                  /\ i' = 0
             ELSE /\ UNCHANGED <<fetch_ret, status>>
                  /\ pc' = "enrich"
                  /\ i' = 1
  /\ UNCHANGED <<db, youtube_api_key, token, result, current_time, all_content,
                 titles, genVars, exc>>

\* lines 177-185: one iteration of "for video in videos[:5]"
EnrichVideo(statsResponses, transcriptResponses) ==
  /\ pc = "enrich"
  /\ i <= Len(EnrichSlice(videos))
  /\ \E sr \in statsResponses, tr \in transcriptResponses :
       LET id == videos[i].video_id
           got == GetVideoViews(sr)
           content == ContentOf(id, GetVideoTranscript(id, tr))
           video == [videos[i] EXCEPT !.has_views = TRUE, !.views = got.value,
                                      !.has_content = TRUE, !.content = content]
       IN IF got.raised
          THEN /\ calls' = Append(calls, Call("statistics", id))
               /\ pc' = "crashed"
               /\ exc' = "IndexError"
               /\ UNCHANGED <<videos, all_content, titles, i>>
          ELSE /\ calls' = calls \o <<Call("statistics", id), Call("transcript", id)>>
               /\ videos' = [videos EXCEPT ![i] = video]
               /\ all_content' = all_content \o Block(video)
               /\ titles' = titles \o TitleItem(video)
               /\ i' = i + 1
               /\ pc' = IF i = Len(EnrichSlice(videos)) THEN "rank" ELSE "enrich"
               /\ UNCHANGED exc
  /\ UNCHANGED <<db, youtube_api_key, reqVars, discovery, fetch_ret, genVars,
                 status>>

\* lines 187-188, 225-232: sort, return, and show the returned videos
RankAndReturn ==
  /\ pc = "rank"
  /\ videos' = SortByViews(videos)
  /\ fetch_ret' = [returned |-> TRUE, items |-> ReturnSlice(videos'),
                   joined_text |-> Truncate(all_content), title_list |-> titles]
  /\ pc' = IF fetch_ret'.items # <<>> THEN "summarize" ELSE "done"
  /\ status' = IF fetch_ret'.items # <<>> THEN status ELSE "No trending videos found."
  /\ UNCHANGED <<db, youtube_api_key, reqVars, discovery, i, all_content, titles,
                 genVars, calls, exc>>

\* lines 233-235, 190-204: generate_summary(all_content, titles)
GenerateSummary(outcomes) ==
  /\ pc = "summarize"
  /\ \E o \in outcomes :
       LET ret == SummaryReturn(o)
       IN /\ completion' = o
          /\ calls' = IF o = "ctor_error" THEN calls
                      ELSE Append(calls, Call("completion", SummaryPrompt(fetch_ret.joined_text)))
          /\ IF ret.raised
             THEN pc' = "crashed" /\ exc' = "Exception" /\ UNCHANGED summary
             ELSE /\ pc' = "done"
                  /\ summary' = [returned |-> TRUE, value |-> ret.value]
                  /\ UNCHANGED exc
          /\ status' = IF Raises(o) THEN "AI Model Call Failed" ELSE status
  /\ UNCHANGED <<db, youtube_api_key, reqVars, aggVars, chatbot_response>>

\* lines 242-248, 206-214: the Ask button
AskHandler(outcomes) ==
  /\ pc = "ui"
  /\ clicked' = "ask"
  /\ \E user_input \in UserInputs :
       IF user_input = ""
       THEN /\ status' = "Please enter a question."
            /\ pc' = "done"
            /\ UNCHANGED <<genVars, calls, exc>>
       ELSE \E o \in outcomes :
              LET ret == ChatReturn(o)
              IN /\ completion' = o
                 /\ calls' = IF o = "ctor_error" THEN calls
                             ELSE Append(calls, Call("completion", "chat"))
                 /\ IF ret.raised
                    THEN pc' = "crashed" /\ exc' = "Exception"
                         /\ UNCHANGED chatbot_response
                    ELSE /\ pc' = "done"
                         /\ chatbot_response' = [returned |-> TRUE, value |-> ret.value]
                         /\ UNCHANGED exc
                 /\ UNCHANGED <<summary, status>>
  /\ UNCHANGED <<db, youtube_api_key, token, result, current_time, aggVars>>

\* a run in which no button was clicked renders the page and ends
NoClick ==
  /\ pc = "ui"
  /\ pc' = "done"
  /\ UNCHANGED <<db, youtube_api_key, reqVars, aggVars, genVars, calls, exc,
                 status>>

\* the external issuer (tube-trend.onrender.com) inserts a row for a token
IssuerInsert ==
  /\ \E t \in Tokens, r \in Rows :
       /\ db[t] = NoResult
       /\ db' = [db EXCEPT ![t] = <<r>>]
  /\ UNCHANGED <<pc, youtube_api_key, reqVars, aggVars, genVars, calls, exc,
                 status>>

\* ------------------------------------------------------------ specifications
\* inputs of the whole-program specification
SearchSmall ==
  {SearchResponse("error", 0, 0), SearchResponse("no_items", 0, 0),
   SearchResponse("ok", 1, 1)}
  \cup {SearchResponse("ok", c, 0) : c \in {0, 2, TopN + 1}}
StatsSmall ==
  {StatsResponse(k, <<>>) : k \in StatsKinds \ {"ok"}}
  \cup {StatsResponse("ok", <<5, 0, 0>>)}
TranscriptSmall == {TranscriptResponse(FALSE, 0), TranscriptResponse(TRUE, 5000)}

Next ==
  \/ DatabaseConnection
  \/ RetrieveToken
  \/ ValidateToken
  \/ CheckExpiry(Times)
  \/ LogoutHandler
  \/ FetchTrendingVideos(SearchSmall)
  \/ EnrichVideo(StatsSmall, TranscriptSmall)
  \/ RankAndReturn
  \/ GenerateSummary(CompletionOutcomes)
  \/ AskHandler(CompletionOutcomes)
  \/ NoClick
  \/ IssuerInsert

Spec == Init /\ [][Next]_vars

\* inputs of the aggregation specification: one valid session, every
\* discovery size, several view counts, long and missing transcripts
SearchAll ==
  {SearchResponse("error", 0, 0), SearchResponse("no_items", 0, 0)}
  \cup {SearchResponse("ok", c, 0) : c \in 0..MaxRaw}
  \cup {SearchResponse("ok", c, 2) : c \in {2, MaxRaw}}
StatsAll ==
  {StatsResponse(k, <<>>) : k \in StatsKinds \ {"ok"}}
  \cup {StatsResponse("ok", d) : d \in {<<0>>, <<1, 0>>, <<1, 0, 0>>, <<5, 0, 0>>}}
TranscriptAll == {TranscriptResponse(FALSE, 0), TranscriptResponse(TRUE, 5000)}

InitAgg ==
  /\ Init
  /\ db = [t \in Tokens |->
             IF t = "t1" THEN <<[null |-> FALSE, expiry |-> MaxTime]>> ELSE NoResult]

NextAgg ==
  \/ DatabaseConnection
  \/ RetrieveToken
  \/ ValidateToken
  \/ CheckExpiry({MaxTime})
  \/ LogoutHandler
  \/ FetchTrendingVideos(SearchAll)
  \/ EnrichVideo(StatsAll, TranscriptAll)
  \/ RankAndReturn
  \/ GenerateSummary({"text"})
  \/ AskHandler({"text"})
  \/ NoClick

SpecAgg == InitAgg /\ [][NextAgg]_vars

\* -------------------------------------------------------------------- claims
Min(a, b) == IF a < b THEN a ELSE b
IsPrefix(a, b) == Len(a) <= Len(b) /\ a = SubSeq(b, 1, Len(a))
\* arguments of this run's calls to one collaborator, in call order
CallArgs(svc) ==
  LET sel == SelectSeq(calls, LAMBDA c : c.svc = svc)
  IN [n \in 1..Len(sel) |-> sel[n].arg]
\* position of a video id in the discovery order
Pos(id) == CHOOSE n \in 1..Len(discovery) : discovery[n] = id
\* the video dict with the given id, wherever the sort has put it
VideoOf(id) == videos[CHOOSE n \in 1..Len(videos) : videos[n].video_id = id]
\* the first candidates of the discovery order
Candidates == ListPrefix(discovery, TopN)
RECURSIVE BlocksInDiscoveryOrder(_)
BlocksInDiscoveryOrder(n) ==
  IF n = 0 THEN <<>> ELSE BlocksInDiscoveryOrder(n - 1) \o Block(VideoOf(Candidates[n]))
ViewsInDiscoveryOrder == [n \in 1..Len(discovery) |-> ViewsKey(VideoOf(discovery[n]))]
ReturnedViews == [n \in 1..Len(fetch_ret.items) |-> fetch_ret.items[n].views]
GatePassed ==
  /\ token # ""
  /\ result # NoResult
  /\ ~result[1].null
  /\ result[1].expiry >= current_time
Protected == {"ui", "enrich", "rank", "summarize"}
DenialStatus ==
  {"Database Connection Failed!", "Unauthorized Access! Redirecting...",
   "Error fetching token data!", "Session Expired! Redirecting..."}

\* C1: whatever the statistics collaborator answers (error, no 'items' key,
\* empty 'items' list, no 'statistics', no 'viewCount'), get_video_views
\* does not raise, so every Fetch run that has ended has returned a result.
C1_StatsNeverFatal ==
  (clicked = "fetch" /\ pc \in Ended) => (exc = "none" /\ fetch_ret.returned)

\* C2: the returned items are ordered by view count descending, and items
\* with equal view counts keep their discovery order.
C2_RankedStable ==
  fetch_ret.returned =>
    \A a, b \in 1..Len(fetch_ret.items) :
      a < b =>
        \/ ViewsKey(fetch_ret.items[a]) > ViewsKey(fetch_ret.items[b])
        \/ /\ ViewsKey(fetch_ret.items[a]) = ViewsKey(fetch_ret.items[b])
           /\ Pos(fetch_ret.items[a].video_id) < Pos(fetch_ret.items[b].video_id)

\* C2 witness: discovery order with views [100, 500, 10] returned as
\* [500, 100, 10].
C2_Witness ==
  /\ fetch_ret.returned
  /\ ViewsInDiscoveryOrder = <<100, 500, 10>>
  /\ ReturnedViews = <<500, 100, 10>>

\* C3: joined_text is at most 20000 characters long and is the first 20000
\* characters of the blocks of the enriched candidates concatenated in
\* discovery order, whatever order the ranking gave the items.
C3_JoinedTextBounded ==
  fetch_ret.returned =>
    /\ TextLen(fetch_ret.joined_text) <= TextBudget
    /\ fetch_ret.joined_text
         = TakePrefix(BlocksInDiscoveryOrder(Len(Candidates)), TextBudget)

\* C3 witness: more than 20000 characters were collected, the text was cut
\* to exactly 20000, and the ranking changed the order of the items.
C3_Witness ==
  /\ fetch_ret.returned
  /\ TextLen(all_content) > TextBudget
  /\ TextLen(fetch_ret.joined_text) = TextBudget
  /\ [n \in 1..Len(fetch_ret.items) |-> fetch_ret.items[n].video_id] # Candidates

\* C4: when discovery yields no candidate, fetch_trending_videos returns
\* empty items, text and titles, and the run calls neither statistics nor
\* transcript nor completion; without the API key it calls nothing at all.
C4_EmptyDiscovery ==
  /\ (clicked = "fetch" /\ discovery = <<>>) =>
       /\ fetch_ret.returned
       /\ fetch_ret.items = <<>>
       /\ fetch_ret.joined_text = <<>>
       /\ fetch_ret.title_list = <<>>
       /\ \A n \in 1..Len(calls) : calls[n].svc = "search"
       /\ ~summary.returned
  /\ (clicked = "fetch" /\ ~youtube_api_key) => (discovery = <<>> /\ calls = <<>>)

\* C4 witness: a Fetch run with the key present whose search found nothing.
C4_Witness ==
  /\ clicked = "fetch"
  /\ youtube_api_key
  /\ fetch_ret.returned
  /\ discovery = <<>>
  /\ calls = <<Call("search", 0)>>

\* C5: the protected operations (any button handler, any outbound call) are
\* reached only with a non-empty token whose row was found with a non-null
\* expiry not earlier than the current time; a run stopped at the gate has
\* made no call.
C5_GateProtects ==
  /\ (pc \in Protected \/ clicked # "none" \/ calls # <<>>) => GatePassed
  /\ pc = "ui" => db[token] = result
  /\ status \in DenialStatus =>
       (pc = "stopped" /\ clicked = "none" /\ calls = <<>> /\ ~fetch_ret.returned
        /\ ~summary.returned /\ ~chatbot_response.returned)

\* C5 witness: a Fetch run that reached the summary with a token expiring
\* exactly at the current time.
C5_Witness ==
  /\ summary.returned
  /\ result # NoResult
  /\ result[1].expiry = current_time

\* C6: when the completion call raises (or the client cannot be built),
\* generate_summary and ai_research_chat return a non-empty string and the
\* run does not end with an exception.
C6_CompletionFailureCaught ==
  Raises(completion) =>
    /\ pc # "crashed"
    /\ exc = "none"
    /\ clicked = "fetch" => (summary.returned /\ summary.value # "")
    /\ clicked = "ask" => (chatbot_response.returned /\ chatbot_response.value # "")

\* C6 witness: an Ask run whose client could not be built.
C6_Witness ==
  /\ clicked = "ask"
  /\ completion = "ctor_error"
  /\ chatbot_response.returned

\* C7: when the completion call succeeds with empty text, generate_summary
\* and ai_research_chat both return a non-empty failure string.
C7_EmptyBecomesFailure ==
  completion = "empty" =>
    /\ clicked = "fetch" => (summary.returned /\ summary.value # "")
    /\ clicked = "ask" => (chatbot_response.returned /\ chatbot_response.value # "")

C9_ReturnedAreEnriched ==
  fetch_ret.returned =>
    /\ Len(fetch_ret.items) = Min(TopN, Len(discovery))
    /\ \A n \in 1..Len(fetch_ret.items) :
         /\ fetch_ret.items[n].has_views
         /\ fetch_ret.items[n].has_content
         /\ fetch_ret.items[n].views >= 0
    /\ {fetch_ret.items[n].video_id : n \in 1..Len(fetch_ret.items)}
         = {Candidates[n] : n \in 1..Len(Candidates)}

\* C9 witness: 10 candidates, every enriched one with 0 views, so all ten
\* sort keys are equal.
C9_Witness ==
  /\ fetch_ret.returned
  /\ Len(discovery) = MaxResults
  /\ \A n \in 1..Len(fetch_ret.items) : fetch_ret.items[n].views = 0

\* C10: a committed Logout removes the token's row and nothing else; a
\* failed one leaves the table unchanged; the Logout run stops without any
\* call; a lookup that finds no row ends in denial; and only the issuer
\* ever adds a row, so a run is past the gate only while its row exists.
C10_LogoutRevokes ==
  /\ [][(pc = "ui" /\ status' = "Logged out! Redirecting...") =>
          (/\ db'[token] = NoResult
           /\ \A t \in Tokens \ {token} : db'[t] = db[t]
           /\ pc' = "stopped")]_vars
  /\ [][(pc = "ui" /\ status' = "Logout Failed!") =>
          (db' = db /\ pc' = "stopped")]_vars
  /\ [][(pc = "validate" /\ pc' = "check_expiry" /\ db[token] = NoResult) =>
          result' = NoResult]_vars
  /\ [][(pc = "check_expiry" /\ result = NoResult /\ pc' # pc) =>
          (pc' = "stopped" /\ status' = "Session Expired! Redirecting...")]_vars
  /\ [][(\E t \in Tokens : db[t] = NoResult /\ db'[t] # NoResult) =>
          UNCHANGED <<pc, token, result, clicked, calls, status>>]_vars
  /\ [](clicked = "logout" =>
          (pc = "stopped" /\ calls = <<>> /\ ~fetch_ret.returned
           /\ ~summary.returned /\ ~chatbot_response.returned))
  /\ [](pc \in Protected => db[token] # NoResult)

\* C10 witness: a committed Logout has removed the row of the run's token.
C10_Witness ==
  /\ clicked = "logout"
  /\ status = "Logged out! Redirecting..."
  /\ db[token] = NoResult

====
